---- MODULE Spec2Model ----
(***************************************************************************)
(* Model of the Oracle service (src/src/service.rs): the call_openai       *)
(* orchestration (prompt, submission, polling with backoff, extraction,    *)
(* retry with an escalated output budget) and its pure helpers.            *)
(*                                                                         *)
(* Two kinds of text are modelled.                                         *)
(*  - Remote text (payload fields, answers) is a sequence of one-character *)
(*    strings, so that trim() and the "\n\n" separator act on characters.  *)
(*  - Local text (problem, extra context, file contents, the prompt) is a  *)
(*    sequence of runs [c, w, k]: k characters of class c, each w bytes    *)
(*    wide, so that String::len() is a byte count and truncate() can meet  *)
(*    the middle of a character, with the real MAX_PROMPT_CHARS.           *)
(***************************************************************************)
EXTENDS Integers, Sequences, FiniteSets, TLC

VARIABLES
    pc,                \* position: "idle", "submit", "poll", "done", "unit"
    request,           \* the OracleRequest of the call in progress
    env,               \* the process environment of the call in progress
    user_prompt,       \* call_openai's user_prompt
    max_output_tokens, \* call_openai's max_output_tokens
    attempts,          \* call_openai's attempts
    response_json,     \* wait_for_openai_completion's response_json
    response_id,       \* wait_for_openai_completion's response_id
    delay,             \* wait_for_openai_completion's delay (ms)
    elapsed,           \* wait_for_openai_completion's elapsed (ms)
    result,            \* what call_openai returned
    remote_jobs,       \* number of jobs the remote service has created
    submissions,       \* the request bodies posted so far, in order
    fetches,           \* ids fetched in the current polling loop, in order
    waits,             \* delays slept in the current polling loop, in order
    observed,          \* non-terminal statuses inspected in the current polling loop
    ends,              \* terminal payloads of the earlier attempts
    steps,             \* what the call has done before submitting
    unit,              \* a helper applied on its own: [fn, in, out]
    running,           \* which call the variables above are the locals of
    parked,            \* the locals of a second call suspended at an await, if any
    owner              \* owner[i]: the call whose submission created remote job i

vars == <<pc, request, env, user_prompt, max_output_tokens, attempts,
          response_json, response_id, delay, elapsed, result, remote_jobs,
          submissions, fetches, waits, observed, ends, steps, unit,
          running, parked, owner>>

----------------------------------------------------------------------------
(* Program constants *)

MAX_PROMPT_CHARS == 1000000
OPENAI_POLL_TIMEOUT_SECS == 120
OPENAI_POLL_START_DELAY_MS == 500
OPENAI_POLL_MAX_DELAY_MS == 5000
OPENAI_JSON_PREVIEW_CHARS == 2000
INITIAL_MAX_OUTPUT_TOKENS == 2048
MAX_OUTPUT_TOKENS_CEILING == 8192
MAX_ATTEMPTS == 3

(* Bounds of the model *)

MaxTextLen == 2        \* longest remote text field, in characters
MaxConcWaits == 1       \* waits per polling loop of two concurrent calls, but for one loop
MaxUnitDelay == 6000   \* largest delay next_poll_delay is tried on alone

Min(a, b) == IF a < b THEN a ELSE b

None == [some |-> FALSE]
Some(x) == [some |-> TRUE, v |-> x]

----------------------------------------------------------------------------
(* Remote text: sequences of characters *)

Chars == {"a", "b", " "}
Whitespace == {" ", "\n"}

RECURSIVE TextsUpTo(_)
TextsUpTo(n) ==
    IF n = 0 THEN {<<>>}
    ELSE LET shorter == TextsUpTo(n - 1)
         IN shorter \cup {Append(t, c) : t \in {s \in shorter : Len(s) = n - 1}, c \in Chars}

Texts == TextsUpTo(MaxTextLen)

RECURSIVE trim_start(_)
trim_start(s) ==
    IF s = <<>> THEN s
    ELSE IF Head(s) \in Whitespace THEN trim_start(Tail(s)) ELSE s

RECURSIVE trim_end(_)
trim_end(s) ==
    IF s = <<>> THEN s
    ELSE IF s[Len(s)] \in Whitespace THEN trim_end(SubSeq(s, 1, Len(s) - 1)) ELSE s

\* str::trim
trim(s) == trim_end(trim_start(s))

----------------------------------------------------------------------------
(* serde_json values.  A value is [t, s, x, a, n]: t is "null" (null, absent, *)
(* or a value of a type no code path reads), "str" or "arr"; a string holds  *)
(* its text either as one word s (status, reason, error message) or as the   *)
(* characters x (answer text); an array holds its elements a; n is the job   *)
(* number of an id string.                                                   *)

Null == [t |-> "null", s |-> "", x |-> <<>>, a |-> <<>>, n |-> 0]
Word(s) == [t |-> "str", s |-> s, x |-> <<>>, a |-> <<>>, n |-> 0]
JobId(n) == [t |-> "str", s |-> "resp", x |-> <<>>, a |-> <<>>, n |-> n]
Str(x) == [t |-> "str", s |-> "", x |-> x, a |-> <<>>, n |-> 0]
Arr(a) == [t |-> "arr", s |-> "", x |-> <<>>, a |-> a, n |-> 0]

\* Value::as_str on a word, on an answer text and on an id; Value::as_array
as_word(j) == IF j.t = "str" THEN Some(j.s) ELSE None
as_str(j) == IF j.t = "str" THEN Some(j.x) ELSE None
as_id(j) == IF j.t = "str" THEN Some(j.n) ELSE None
as_array(j) == IF j.t = "arr" THEN Some(j.a) ELSE None

append_text_segment(buffer, text) ==
    IF trim(text) = <<>> THEN buffer
    ELSE IF buffer # <<>> THEN buffer \o <<"\n", "\n">> \o text
    ELSE buffer \o text

RECURSIVE collect_text_from_contents_NestedFirst(_, _)
collect_text_from_contents_NestedFirst(contents, buffer) ==
    IF contents = <<>> THEN buffer
    ELSE LET entry == Head(contents)
             nested == IF as_array(entry.content).some
                       THEN collect_text_from_contents_NestedFirst(
                                as_array(entry.content).v, buffer)
                       ELSE buffer
             own == IF as_str(entry.text).some
                    THEN append_text_segment(nested, as_str(entry.text).v)
                    ELSE nested
         IN collect_text_from_contents_NestedFirst(Tail(contents), own)

RECURSIVE collect_text_from_contents(_, _)
collect_text_from_contents(contents, buffer) ==
    IF contents = <<>> THEN buffer
    ELSE LET entry == Head(contents)
             own == IF as_str(entry.text).some
                    THEN append_text_segment(buffer, as_str(entry.text).v)
                    ELSE buffer
             nested == IF as_array(entry.content).some
                       THEN collect_text_from_contents(as_array(entry.content).v, own)
                       ELSE own
         IN collect_text_from_contents(Tail(contents), nested)

extract_top_level_text_NoTrim(response) ==
    IF as_str(response.output_text).some /\ trim(as_str(response.output_text).v) # <<>>
    THEN Some(as_str(response.output_text).v)
    ELSE None

\* strategy 1: output_text as a string, trimmed
extract_top_level_text(response) ==
    IF as_str(response.output_text).some /\ trim(as_str(response.output_text).v) # <<>>
    THEN Some(trim(as_str(response.output_text).v))
    ELSE None

RECURSIVE JoinChunks(_, _)
JoinChunks(chunks, buffer) ==
    IF chunks = <<>> THEN buffer
    ELSE JoinChunks(Tail(chunks),
                    IF as_str(Head(chunks)).some
                    THEN append_text_segment(buffer, as_str(Head(chunks)).v)
                    ELSE buffer)

\* strategy 2: output_text as an array of strings
extract_text_fragments(response) ==
    IF as_array(response.output_text).some
    THEN LET buffer == JoinChunks(as_array(response.output_text).v, <<>>)
         IN IF buffer # <<>> THEN Some(buffer) ELSE None
    ELSE None

RECURSIVE CollectItems(_, _)
CollectItems(items, buffer) ==
    IF items = <<>> THEN buffer
    ELSE CollectItems(Tail(items),
                      IF as_array(Head(items).content).some
                      THEN collect_text_from_contents(as_array(Head(items).content).v, buffer)
                      ELSE buffer)

\* strategy 3: output as an array of items, each with a content array
extract_output_items(response) ==
    IF as_array(response.output).some
    THEN LET buffer == CollectItems(as_array(response.output).v, <<>>)
         IN IF buffer # <<>> THEN Some(buffer) ELSE None
    ELSE None

\* strategy 4: a top-level content array
extract_content_list(response) ==
    IF as_array(response.content).some
    THEN LET buffer == collect_text_from_contents(as_array(response.content).v, <<>>)
         IN IF buffer # <<>> THEN Some(buffer) ELSE None
    ELSE None

extract_output_text_ContentFirst(response) ==
    IF extract_content_list(response).some THEN extract_content_list(response)
    ELSE IF extract_output_items(response).some THEN extract_output_items(response)
    ELSE IF extract_top_level_text(response).some THEN extract_top_level_text(response)
    ELSE extract_text_fragments(response)

extract_output_text(response) ==
    IF extract_top_level_text(response).some THEN extract_top_level_text(response)
    ELSE IF extract_text_fragments(response).some THEN extract_text_fragments(response)
    ELSE IF extract_output_items(response).some THEN extract_output_items(response)
    ELSE extract_content_list(response)

response_status(value) == as_word(value.status)

should_poll_status(status) == status \in {"queued", "in_progress", "cancelling"}

openai_error_message(value) == as_word(value.error_message)

incomplete_reason(value) == as_word(value.incomplete_reason)

next_poll_delay_NoCap(current) ==
    IF current = 0 THEN OPENAI_POLL_START_DELAY_MS ELSE current + current \div 2

next_poll_delay(current) ==
    LET millis == IF current = 0
                  THEN OPENAI_POLL_START_DELAY_MS
                  ELSE current + current \div 2
    IN Min(millis, OPENAI_POLL_MAX_DELAY_MS)

----------------------------------------------------------------------------
(* Local text: sequences of runs [c, w, k] = k characters of class c, each  *)
(* w bytes wide.  A fixed literal is one run of its own class.              *)

Run(c, w, k) == [c |-> c, w |-> w, k |-> k]
Lit(c, n) == <<Run(c, 1, n)>>

RECURSIVE ByteLen(_)
\* String::len, a count of bytes
ByteLen(s) == IF s = <<>> THEN 0 ELSE Head(s).w * Head(s).k + ByteLen(Tail(s))

\* s.trim().is_empty()
IsBlank(s) == \A i \in 1..Len(s) : s[i].c = "ws" \/ s[i].k = 0

RECURSIVE CutAt(_, _)
\* The first n bytes of s, for n <= ByteLen(s): [panic, v].  Both
\* String::truncate and the slice &s[..n] panic when byte n lies inside a
\* character.
CutAt(s, n) ==
    IF s = <<>> \/ n = 0 THEN [panic |-> FALSE, v |-> <<>>]
    ELSE LET r == Head(s)
             bytes == r.w * r.k
         IN IF n >= bytes
            THEN LET rest == CutAt(Tail(s), n - bytes)
                 IN [panic |-> rest.panic, v |-> <<r>> \o rest.v]
            ELSE IF n % r.w # 0
                 THEN [panic |-> TRUE, v |-> <<>>]
                 ELSE [panic |-> FALSE, v |-> <<Run(r.c, r.w, n \div r.w)>>]

(* The file system build_prompt reads: path -> [path, read].  path is the   *)
(* path string, read the outcome of tokio::fs::read_to_string.              *)
Paths == {"small.rs", "big.rs", "utf8.md", "missing.rs"}

PathText(path) == <<Run(path, 1, 8)>>

ReadToString(path) ==
    CASE path = "small.rs"   -> [ok |-> TRUE, v |-> <<Run("small", 1, 40)>>]
      [] path = "big.rs"     -> [ok |-> TRUE, v |-> <<Run("big", 1, 1200000)>>]
      [] path = "utf8.md"    -> [ok |-> TRUE, v |-> <<Run("utf8", 3, 400000)>>]
      [] path = "missing.rs" -> [ok |-> FALSE, v |-> <<Run("io error", 1, 25)>>]

RECURSIVE read_files(_, _)
\* the loop over request.files in build_prompt
read_files(files, context_blocks) ==
    IF files = <<>> THEN context_blocks
    ELSE LET path == Head(files)
             got == ReadToString(path)
             block == IF got.ok
                      THEN Lit("\n\n===== FILE: ", 14) \o PathText(path)
                           \o Lit(" =====\n", 7) \o got.v \o Lit("\n", 1)
                      ELSE Lit("\n\n===== FILE: ", 14) \o PathText(path)
                           \o Lit(" (error reading) =====\n", 23) \o got.v \o Lit("\n", 1)
         IN read_files(Tail(files), context_blocks \o block)

Instructions ==
    Lit("You are Oracle, a senior software engineer MCP tool.\n", 53)
    \o Lit("You will be given a coding problem and optional project files.\n", 63)
    \o Lit("Carefully analyze the problem ...\n\n", 109)
    \o Lit("Context is constrained to stay under roughly 256k tokens ...\n\n", 133)

header == Lit("### Project files\n", 18)
trunc_notice == Lit("\n\n...[truncated project file content ...]...\n", 79)

\* user_prompt before the project files are considered
PromptBase(req) ==
    Instructions
    \o Lit("### Coding problem\n", 19) \o req.problem \o Lit("\n\n", 2)
    \o (IF req.extra_context.some
        THEN Lit("### Extra context\n", 18) \o req.extra_context.v \o Lit("\n\n", 2)
        ELSE <<>>)

SaturatingSub(a, b) == IF a > b THEN a - b ELSE 0

\* build_prompt: [panic, v], v the prompt when truncate() did not panic
build_prompt(req) ==
    LET context_blocks == IF req.files.some THEN read_files(req.files.v, <<>>) ELSE <<>>
        base == PromptBase(req)
        base_len == ByteLen(base) + ByteLen(header) + ByteLen(trunc_notice)
        available_for_files == SaturatingSub(MAX_PROMPT_CHARS, base_len)
        cut == CutAt(context_blocks, available_for_files)
    IN IF context_blocks = <<>> THEN [panic |-> FALSE, v |-> base]
       ELSE IF available_for_files = 0
            THEN [panic |-> FALSE, v |-> base \o header \o trunc_notice]
            ELSE IF ByteLen(context_blocks) > available_for_files
                 THEN [panic |-> cut.panic,
                       v |-> IF cut.panic THEN <<>> ELSE base \o header \o cut.v \o trunc_notice]
                 ELSE [panic |-> FALSE, v |-> base \o header \o context_blocks]

RECURSIVE FileList(_)
FileList(files) ==
    IF files = <<>> THEN <<>>
    ELSE Lit("- ", 2) \o PathText(Head(files)) \o Lit("\n", 1) \o FileList(Tail(files))

\* lines 60-93
test_mode_response(req) ==
    Lit("[oracle test mode] No call was made to OpenAI ...\n\n", 80)
    \o Lit("Problem description:\n", 21) \o req.problem \o Lit("\n\n", 2)
    \o (IF req.extra_context.some /\ ~IsBlank(req.extra_context.v)
        THEN Lit("Extra context:\n", 15) \o req.extra_context.v \o Lit("\n\n", 2)
        ELSE Lit("Extra context: (not provided)\n\n", 31))
    \o Lit("Files provided:\n", 16)
    \o (IF req.files.some /\ req.files.v # <<>>
        THEN FileList(req.files.v)
        ELSE Lit("(none)\n", 7))

\* summarize_json: [panic, v, omitted]; value.serialized is value.to_string()
summarize_json(value) ==
    LET json_str == value.serialized
        cut == CutAt(json_str, OPENAI_JSON_PREVIEW_CHARS)
    IN IF ByteLen(json_str) <= OPENAI_JSON_PREVIEW_CHARS
       THEN [panic |-> FALSE, v |-> json_str, omitted |-> 0]
       ELSE [panic |-> cut.panic, v |-> cut.v,
             omitted |-> ByteLen(json_str) - OPENAI_JSON_PREVIEW_CHARS]

----------------------------------------------------------------------------
(* Inputs: requests, environments and what the remote service answers *)

Request(problem, extra_context, files) ==
    [problem |-> problem, extra_context |-> extra_context, files |-> files]

NoRequest == Request(<<>>, None, None)

\* the requests whole calls are run on
CallRequests ==
    { Request(<<Run("txt", 1, 7)>>, None, None),
      Request(<<Run("txt", 1, 9)>>, Some(<<Run("txt", 1, 5)>>), Some(<<"small.rs", "big.rs">>)),
      Request(<<Run("txt", 1, 7)>>, None, Some(<<"utf8.md">>)) }

\* ORACLE_TEST_MODE as set (after trim and lower-casing) or unset, and whether
\* OPENAI_API_KEY is set
Environments ==
    [ORACLE_TEST_MODE : {None, Some("1"), Some("on"), Some("0")}, OPENAI_API_KEY : BOOLEAN]

test_mode_enabled_OnlyOne(e) ==
    e.ORACLE_TEST_MODE.some /\ e.ORACLE_TEST_MODE.v \in {"1"}

\* lines 50-58
test_mode_enabled(e) ==
    e.ORACLE_TEST_MODE.some /\ e.ORACLE_TEST_MODE.v \in {"1", "true", "yes", "on"}

Entry(text, content) == [text |-> text, content |-> content]

\* the serialized forms (Value::to_string) a payload is given: short, longer
\* than the preview, longer with a 3-byte character across byte 2000, and
\* longer with 3-byte characters after byte 2000 only
Serializations ==
    { Lit("json", 300),
      Lit("json", 2500),
      <<Run("json", 1, 1999), Run("utf8", 3, 10), Run("json", 1, 500)>>,
      <<Run("json", 1, 2000), Run("utf8", 3, 100)>> }

Shape(output_text, output, content) ==
    [output_text |-> output_text, output |-> output, content |-> content]

NoTextShape == Shape(Null, Null, Null)

TextShapes ==
    { Shape(Str(<<"a">>), Null, Null),
      Shape(Str(<<" ", "a">>), Null, Null),
      Shape(Str(<<" ">>), Null, Arr(<<Entry(Str(<<"b">>), Null)>>)),
      Shape(Null, Arr(<<Entry(Null, Arr(<<Entry(Str(<<"a">>), Null),
                                          Entry(Str(<<"b">>), Null)>>))>>), Null),
      Shape(Arr(<<Str(<<"a">>), Str(<<"b">>)>>), Null, Null),
      Shape(Str(<<"a">>), Null, Arr(<<Entry(Str(<<"b">>), Null)>>)) }

Payload(status, reason, error_message, shape, serialized) ==
    [id |-> Null, status |-> status, incomplete_reason |-> reason,
     error_message |-> error_message, output_text |-> shape.output_text,
     output |-> shape.output, content |-> shape.content,
     serialized |-> serialized]

NoPayload == Payload(Null, Null, Null, NoTextShape, <<>>)

Reasons == {Null, Word("max_output_tokens"), Word("content_filter")}

\* the payloads the remote service answers a submission or a fetch with
Payloads ==
    { Payload(Word(st), Null, Null, NoTextShape, ser) :
        st \in {"queued", "in_progress", "cancelling"}, ser \in Serializations }
    \cup { Payload(Word(st), r, Null, sh, Lit("json", 300)) :
        st \in {"completed", "incomplete"}, r \in Reasons, sh \in TextShapes }
    \cup { Payload(Word(st), r, Null, NoTextShape, ser) :
        st \in {"completed", "incomplete"}, r \in Reasons, ser \in Serializations }
    \cup { Payload(Word("failed"), Null, e, NoTextShape, ser) :
        e \in {Null, Word("rate limited")}, ser \in Serializations }
    \cup { Payload(st, Null, Null, NoTextShape, ser) :
        st \in {Word("requires_action"), Word("cancelled"), Word("expired"), Null},
        ser \in Serializations }

\* what a POST or GET can come back with
HttpOutcomes ==
    { [k |-> "send_error", body |-> <<>>, p |-> NoPayload],
      [k |-> "parse_error", body |-> <<>>, p |-> NoPayload] }
    \cup { [k |-> "json", body |-> <<>>, p |-> p] : p \in Payloads }

PostOutcomes ==
    HttpOutcomes
    \cup { [k |-> "http_error", body |-> b, p |-> NoPayload] :
             b \in {Lit("body", 40), Lit("body", 5000)} }

----------------------------------------------------------------------------
(* Results of call_openai: Ok(String), Err(McpError) or a panic *)

NoPreview == [panic |-> FALSE, v |-> <<>>, omitted |-> 0]

Ok(text) == [ok |-> TRUE, kind |-> "success", text |-> text, preview |-> NoPreview]

Err(kind, text, preview) == [ok |-> FALSE, kind |-> kind, text |-> text, preview |-> preview]

Panicked == [ok |-> FALSE, kind |-> "panic", text |-> <<>>, preview |-> NoPreview]

NoResult == [ok |-> FALSE, kind |-> "none", text |-> <<>>, preview |-> NoPreview]

\* an error whose message ends with summarize_json(value)
ErrWithPayload(kind, text, value) ==
    IF summarize_json(value).panic THEN Panicked
    ELSE Err(kind, text, summarize_json(value))

\* lines 511-522: the tool operation solve_coding_problem over the outcome r
\* of call_openai: a success result, an error result, or the panic of
\* call_openai unwinding through the handler (fault)
oracle(r) ==
    IF r.kind = "panic"
    THEN [fault |-> TRUE, is_error |-> FALSE, content |-> <<>>]
    ELSE IF r.ok
         THEN [fault |-> FALSE, is_error |-> FALSE, content |-> r.text]
         ELSE [fault |-> FALSE, is_error |-> TRUE,
               content |-> <<"Oracle encountered an error: ">> \o r.text]

StatusOf(value) ==
    IF response_status(value).some THEN response_status(value).v ELSE "unknown"

ReasonOf(value) ==
    IF incomplete_reason(value).some THEN incomplete_reason(value).v ELSE "reason unavailable"

NoSteps == [test_mode_checked |-> FALSE, files_read |-> 0, prompts_built |-> 0,
            api_key_read |-> FALSE]

NoUnit == [fn |-> "none", in |-> <<>>, out |-> <<>>]

Init ==
    /\ pc = "idle"
    /\ request = NoRequest
    /\ env = [ORACLE_TEST_MODE |-> None, OPENAI_API_KEY |-> FALSE]
    /\ user_prompt = <<>>
    /\ max_output_tokens = 0
    /\ attempts = 0
    /\ response_json = NoPayload
    /\ response_id = 0
    /\ delay = 0
    /\ elapsed = 0
    /\ result = NoResult
    /\ remote_jobs = 0
    /\ submissions = <<>>
    /\ fetches = <<>>
    /\ waits = <<>>
    /\ observed = 0
    /\ ends = <<>>
    /\ steps = NoSteps
    /\ unit = NoUnit
    /\ running = 1
    /\ parked = None
    /\ owner = <<>>

----------------------------------------------------------------------------
(* call_openai up to its retry loop *)

\* lines 96-98: the test-mode return
CallOpenaiTestMode ==
    /\ pc = "idle"
    /\ UNCHANGED <<running, parked, owner>>
    /\ \E req \in CallRequests, e \in Environments :
       /\ test_mode_enabled(e)
       /\ request' = req
       /\ env' = e
       /\ steps' = [steps EXCEPT !.test_mode_checked = TRUE]
       /\ result' = Ok(test_mode_response(req))
       /\ pc' = "done"
       /\ UNCHANGED <<user_prompt, max_output_tokens, attempts, response_json,
                      response_id, delay, elapsed, remote_jobs, submissions,
                      fetches, waits, observed, ends, unit>>

FilesRead(req) == IF req.files.some THEN Len(req.files.v) ELSE 0

\* lines 96-125: build the prompt, read the key, initialise the loop
CallOpenaiStart ==
    /\ pc = "idle"
    /\ UNCHANGED <<running, parked, owner>>
    /\ \E req \in CallRequests, e \in Environments :
       /\ ~test_mode_enabled(e)
       /\ request' = req
       /\ env' = e
       /\ IF build_prompt(req).panic
          THEN /\ steps' = [test_mode_checked |-> TRUE, files_read |-> FilesRead(req),
                            prompts_built |-> 0, api_key_read |-> FALSE]
               /\ result' = Panicked
               /\ pc' = "done"
               /\ UNCHANGED <<user_prompt, max_output_tokens, attempts>>
          ELSE /\ steps' = [test_mode_checked |-> TRUE, files_read |-> FilesRead(req),
                            prompts_built |-> 1, api_key_read |-> TRUE]
               /\ user_prompt' = build_prompt(req).v
               /\ IF e.OPENAI_API_KEY
                  THEN /\ max_output_tokens' = INITIAL_MAX_OUTPUT_TOKENS
                       /\ attempts' = 0
                       /\ pc' = "submit"
                       /\ UNCHANGED result
                  ELSE /\ result' = Err("configuration",
                                        <<"Environment variable OPENAI_API_KEY is not set">>,
                                        NoPreview)
                       /\ pc' = "done"
                       /\ UNCHANGED <<max_output_tokens, attempts>>
       /\ UNCHANGED <<response_json, response_id, delay, elapsed, remote_jobs,
                      submissions, fetches, waits, observed, ends, unit>>

ResponseRequest_EffortByBudget(input, budget) ==
    [model |-> "gpt-5-pro", input |-> input,
     instructions |-> "You are Oracle, a meticulous, senior-level coding assistant. ...",
     reasoning |-> IF budget > INITIAL_MAX_OUTPUT_TOKENS THEN "medium" ELSE "high",
     max_output_tokens |-> budget]

\* lines 130-140: the body of a submission
ResponseRequest(input, budget) ==
    [model |-> "gpt-5-pro", input |-> input,
     instructions |-> "You are Oracle, a meticulous, senior-level coding assistant. ...",
     reasoning |-> "high", max_output_tokens |-> budget]

\* lines 128-169 and 221-236: one pass of the retry loop up to the polling
\* loop: count the attempt, POST the body, read the response, take its id
Submit ==
    /\ pc = "submit"
    /\ UNCHANGED <<running, parked>>
    /\ \E o \in PostOutcomes, has_id \in BOOLEAN :
       /\ attempts' = attempts + 1
       /\ submissions' = Append(submissions, ResponseRequest(user_prompt, max_output_tokens))
       /\ CASE o.k = "send_error" ->
                 /\ result' = Err("transport", <<"Failed to call OpenAI API: ">>, NoPreview)
                 /\ pc' = "done"
                 /\ UNCHANGED <<response_json, response_id, delay, elapsed, remote_jobs,
                                owner, fetches, waits, observed>>
            [] o.k = "http_error" ->
                 /\ result' = Err("http_status", <<"OpenAI API returned non-success status ">>,
                                  [panic |-> FALSE, v |-> o.body, omitted |-> 0])
                 /\ pc' = "done"
                 /\ UNCHANGED <<response_json, response_id, delay, elapsed, remote_jobs,
                                owner, fetches, waits, observed>>
            [] o.k = "parse_error" ->
                 /\ result' = Err("parse", <<"Failed to parse OpenAI response: ">>, NoPreview)
                 /\ pc' = "done"
                 /\ UNCHANGED <<response_json, response_id, delay, elapsed, remote_jobs,
                                owner, fetches, waits, observed>>
            [] o.k = "json" ->
                 LET initial_response ==
                         [o.p EXCEPT !.id = IF has_id THEN JobId(remote_jobs + 1) ELSE Null]
                 IN /\ remote_jobs' = remote_jobs + 1
                    /\ owner' = Append(owner, running)
                    /\ response_json' = initial_response
                    /\ IF as_id(initial_response.id).some
                       THEN /\ response_id' = as_id(initial_response.id).v
                            /\ delay' = OPENAI_POLL_START_DELAY_MS
                            /\ elapsed' = 0
                            /\ fetches' = <<>>
                            /\ waits' = <<>>
                            /\ observed' = 0
                            /\ pc' = "poll"
                            /\ UNCHANGED result
                       ELSE /\ result' = ErrWithPayload("missing_id",
                                             <<"OpenAI response missing an id. Raw payload: ">>,
                                             initial_response)
                            /\ pc' = "done"
                            /\ UNCHANGED <<response_id, delay, elapsed, fetches, waits, observed>>
       /\ UNCHANGED <<request, env, user_prompt, max_output_tokens, ends, steps, unit>>

----------------------------------------------------------------------------
(* wait_for_openai_completion: one pass of the polling loop per action *)

PollTimeoutMs == OPENAI_POLL_TIMEOUT_SECS * 1000

EndOf(value) ==
    [status |-> StatusOf(value), reason |-> incomplete_reason(value),
     text |-> extract_output_text(value)]

WarningSuffix(reason) ==
    <<"\n\n[oracle warning] OpenAI stopped early (", reason,
      "). The answer may be truncated.">>

\* lines 174-183: the answer returned when text was extracted
AnswerNoWarning(value, text) == text

AnswerAlwaysWarning(value, text) == text \o WarningSuffix(ReasonOf(value))

Answer(value, text) ==
    IF StatusOf(value) = "incomplete"
    THEN text \o WarningSuffix(ReasonOf(value))
    ELSE text

\* lines 185-189: the condition of the retry
ShouldRetry(value, budget, n) ==
    /\ StatusOf(value) = "incomplete"
    /\ incomplete_reason(value) = Some("max_output_tokens")
    /\ budget < MAX_OUTPUT_TOKENS_CEILING
    /\ n < MAX_ATTEMPTS

NextBudget_PlusStep(budget) ==
    Min(budget + INITIAL_MAX_OUTPUT_TOKENS, MAX_OUTPUT_TOKENS_CEILING)

\* line 190
NextBudget(budget) == Min(budget * 2, MAX_OUTPUT_TOKENS_CEILING)

\* line 242 and lines 171-212: a completed or incomplete payload leaves the
\* polling loop; call_openai extracts the text and returns, or retries
PollReturn ==
    /\ pc = "poll"
    /\ UNCHANGED <<running, parked, owner>>
    /\ StatusOf(response_json) \in {"completed", "incomplete"}
    /\ ends' = Append(ends, EndOf(response_json))
    /\ IF extract_output_text(response_json).some
       THEN /\ result' = Ok(Answer(response_json, extract_output_text(response_json).v))
            /\ pc' = "done"
            /\ UNCHANGED max_output_tokens
       ELSE IF ShouldRetry(response_json, max_output_tokens, attempts)
       THEN /\ max_output_tokens' = NextBudget(max_output_tokens)
            /\ pc' = "submit"
            /\ UNCHANGED result
       ELSE IF StatusOf(response_json) = "incomplete"
       THEN /\ result' = ErrWithPayload("incomplete_no_text",
                             <<"OpenAI response ended incomplete (", ReasonOf(response_json),
                               ") before returning any text. Raw payload: ">>,
                             response_json)
            /\ pc' = "done"
            /\ UNCHANGED max_output_tokens
       ELSE /\ result' = ErrWithPayload("no_text_extracted",
                             <<"OpenAI response did not contain any text output. Raw payload: ">>,
                             response_json)
            /\ pc' = "done"
            /\ UNCHANGED max_output_tokens
    /\ UNCHANGED <<request, env, user_prompt, attempts, response_json, response_id,
                   delay, elapsed, remote_jobs, submissions, fetches, waits,
                   observed, steps, unit>>

\* lines 244-245
FailedMessage(value) ==
    IF openai_error_message(value).some
    THEN openai_error_message(value).v
    ELSE "OpenAI response marked as failed"

\* lines 243-268 and 305-313: the statuses that fail the call
PollFail ==
    /\ pc = "poll"
    /\ UNCHANGED <<running, parked, owner>>
    /\ StatusOf(response_json) \notin {"completed", "incomplete"}
    /\ ~should_poll_status(StatusOf(response_json))
    /\ result' =
         CASE StatusOf(response_json) = "failed" ->
                ErrWithPayload("failed",
                    <<FailedMessage(response_json), ". Raw payload: ">>, response_json)
           [] StatusOf(response_json) = "requires_action" ->
                ErrWithPayload("requires_action",
                    <<"OpenAI response requires additional action that Oracle cannot perform. Raw payload: ">>,
                    response_json)
           [] StatusOf(response_json) = "cancelled" ->
                ErrWithPayload("cancelled",
                    <<"OpenAI response was cancelled before completion. Raw payload: ">>,
                    response_json)
           [] OTHER ->
                ErrWithPayload("unexpected_status",
                    <<"OpenAI response entered unexpected status '", StatusOf(response_json),
                      "'. Raw payload: ">>, response_json)
    /\ pc' = "done"
    /\ UNCHANGED <<request, env, user_prompt, max_output_tokens, attempts,
                   response_json, response_id, delay, elapsed, remote_jobs,
                   submissions, fetches, waits, observed, ends, steps, unit>>

\* line 270: the deadline test
DeadlineReachedInMillis(e) == e >= OPENAI_POLL_TIMEOUT_SECS

DeadlineReached(e) == e >= PollTimeoutMs

\* lines 269-278: a non-terminal status once the deadline is reached
PollTimeout ==
    /\ pc = "poll"
    /\ UNCHANGED <<running, parked, owner>>
    /\ should_poll_status(StatusOf(response_json))
    /\ DeadlineReached(elapsed)
    /\ observed' = observed + 1
    /\ result' = ErrWithPayload("poll_timeout",
                     <<"Timed out waiting for OpenAI response {response_id} to finish. Last payload: ">>,
                     response_json)
    /\ pc' = "done"
    /\ UNCHANGED <<request, env, user_prompt, max_output_tokens, attempts,
                   response_json, response_id, delay, elapsed, remote_jobs,
                   submissions, fetches, waits, ends, steps, unit>>

\* lines 269-304: a non-terminal status before the deadline: sleep, advance
\* the backoff, fetch the job again
PollSleepFetch ==
    /\ pc = "poll"
    /\ UNCHANGED <<running, parked, owner>>
    /\ \E o \in HttpOutcomes :
       /\ should_poll_status(StatusOf(response_json))
       /\ ~DeadlineReached(elapsed)
       /\ observed' = observed + 1
       /\ waits' = Append(waits, delay)
       /\ elapsed' = elapsed + delay
       /\ delay' = next_poll_delay(delay)
       /\ fetches' = Append(fetches, response_id)
       /\ CASE o.k = "send_error" ->
                 /\ result' = Err("transport", <<"Failed to poll OpenAI response: ">>, NoPreview)
                 /\ pc' = "done"
                 /\ UNCHANGED response_json
            [] o.k = "parse_error" ->
                 /\ result' = Err("parse", <<"Failed to parse OpenAI poll response: ">>, NoPreview)
                 /\ pc' = "done"
                 /\ UNCHANGED response_json
            [] o.k = "json" ->
                 /\ response_json' = [o.p EXCEPT !.id = JobId(response_id)]
                 /\ UNCHANGED <<result, pc>>
       /\ UNCHANGED <<request, env, user_prompt, max_output_tokens, attempts,
                      response_id, remote_jobs, submissions, ends, steps, unit>>

----------------------------------------------------------------------------
(* The pure helpers applied on their own *)

ContentLists ==
    { <<>>,
      <<Entry(Null, Null)>>,
      <<Entry(Str(<<"a">>), Null)>>,
      <<Entry(Str(<<" ">>), Null)>>,
      <<Entry(Str(<<"a">>), Null), Entry(Str(<<"b">>), Null)>>,
      <<Entry(Str(<<"a">>), Arr(<<Entry(Str(<<"b">>), Null)>>))>>,
      <<Entry(Null, Arr(<<Entry(Str(<<" ">>), Null),
                         Entry(Str(<<"b">>), Arr(<<Entry(Str(<<"a">>), Null)>>))>>))>> }

Contents == {Null} \cup {Arr(c) : c \in ContentLists}

Outputs ==
    {Null, Arr(<<>>)}
    \cup {Arr(<<Entry(t, c)>>) : t \in {Null, Str(<<"b">>)}, c \in Contents}
    \cup {Arr(<<Entry(Null, c), Entry(Null, Arr(<<Entry(Str(<<"b">>), Null)>>))>>) :
            c \in Contents}

Fragments == {<<"a">>, <<"b">>, <<" ">>}

OutputTexts ==
    {Null, Arr(<<>>)}
    \cup {Str(t) : t \in Texts}
    \cup {Arr(<<Str(t)>>) : t \in Texts}
    \cup {Arr(<<Str(t1), Null, Str(t2)>>) : t1 \in Fragments, t2 \in Fragments}

UnitPayloads ==
    { Payload(Word("completed"), Null, Null, Shape(ot, out, c), Lit("json", 300)) :
        ot \in OutputTexts, out \in Outputs, c \in Contents }

UnitRequests ==
    { Request(problem, extra, files) :
        problem \in { <<Run("txt", 1, 7)>>, <<Run("txt", 1, 9)>>,
                      <<Run("txt", 1, 999523)>>, <<Run("txt", 1, 999524)>>,
                      <<Run("txt", 1, 1000000)>>, <<Run("utf8", 2, 600000)>> },
        extra \in { None, Some(<<>>), Some(<<Run("ws", 1, 3)>>), Some(<<Run("txt", 1, 5)>>) },
        files \in {None, Some(<<>>)}
                 \cup {Some(<<f>>) : f \in Paths}
                 \cup {Some(<<f, g>>) : f \in Paths, g \in Paths} }

UnitExtractOutputText ==
    /\ pc = "idle"
    /\ UNCHANGED <<running, parked, owner>>
    /\ \E p \in UnitPayloads :
       /\ unit' = [fn |-> "extract_output_text", in |-> p, out |-> extract_output_text(p)]
       /\ pc' = "unit"
       /\ UNCHANGED <<request, env, user_prompt, max_output_tokens, attempts,
                      response_json, response_id, delay, elapsed, result, remote_jobs,
                      submissions, fetches, waits, observed, ends, steps>>

UnitBuildPrompt ==
    /\ pc = "idle"
    /\ UNCHANGED <<running, parked, owner>>
    /\ \E req \in UnitRequests :
       /\ unit' = [fn |-> "build_prompt", in |-> req, out |-> build_prompt(req)]
       /\ pc' = "unit"
       /\ UNCHANGED <<request, env, user_prompt, max_output_tokens, attempts,
                      response_json, response_id, delay, elapsed, result, remote_jobs,
                      submissions, fetches, waits, observed, ends, steps>>

UnitNextPollDelay ==
    /\ pc = "idle"
    /\ UNCHANGED <<running, parked, owner>>
    /\ \E d \in 0..MaxUnitDelay :
       /\ unit' = [fn |-> "next_poll_delay", in |-> d, out |-> next_poll_delay(d)]
       /\ pc' = "unit"
       /\ UNCHANGED <<request, env, user_prompt, max_output_tokens, attempts,
                      response_json, response_id, delay, elapsed, result, remote_jobs,
                      submissions, fetches, waits, observed, ends, steps>>

----------------------------------------------------------------------------

Next ==
    \/ CallOpenaiTestMode
    \/ CallOpenaiStart
    \/ Submit
    \/ PollReturn
    \/ PollFail
    \/ PollTimeout
    \/ PollSleepFetch
    \/ UnitExtractOutputText
    \/ UnitBuildPrompt
    \/ UnitNextPollDelay

Spec == Init /\ [][Next]_vars

----------------------------------------------------------------------------
(* Two concurrent calls.  call_openai and wait_for_openai_completion keep  *)
(* all their state in locals (lines 100-125, 221-236); through &self they  *)
(* share the transport client alone.  The variables of the call flow are    *)
(* the locals of the call that is running; parked holds the locals of the  *)
(* call suspended at an await.  Tasks are switched at awaits only, that is  *)
(* between two actions.                                                     *)

Calls == {1, 2}

\* the locals of the running call
Locals ==
    [pc |-> pc, request |-> request, env |-> env,
     user_prompt |-> user_prompt, max_output_tokens |-> max_output_tokens,
     attempts |-> attempts, response_json |-> response_json,
     response_id |-> response_id, delay |-> delay, elapsed |-> elapsed,
     result |-> result, submissions |-> submissions, fetches |-> fetches,
     waits |-> waits, observed |-> observed, ends |-> ends, steps |-> steps]

\* the running call takes up the locals l, but goes on with the job id that
\* was in use
Resume_KeepResponseId(l) ==
    /\ pc' = l.pc
    /\ request' = l.request
    /\ env' = l.env
    /\ user_prompt' = l.user_prompt
    /\ max_output_tokens' = l.max_output_tokens
    /\ attempts' = l.attempts
    /\ response_json' = l.response_json
    /\ UNCHANGED response_id
    /\ delay' = l.delay
    /\ elapsed' = l.elapsed
    /\ result' = l.result
    /\ submissions' = l.submissions
    /\ fetches' = l.fetches
    /\ waits' = l.waits
    /\ observed' = l.observed
    /\ ends' = l.ends
    /\ steps' = l.steps

\* the running call takes up the locals l
Resume(l) ==
    /\ pc' = l.pc
    /\ request' = l.request
    /\ env' = l.env
    /\ user_prompt' = l.user_prompt
    /\ max_output_tokens' = l.max_output_tokens
    /\ attempts' = l.attempts
    /\ response_json' = l.response_json
    /\ response_id' = l.response_id
    /\ delay' = l.delay
    /\ elapsed' = l.elapsed
    /\ result' = l.result
    /\ submissions' = l.submissions
    /\ fetches' = l.fetches
    /\ waits' = l.waits
    /\ observed' = l.observed
    /\ ends' = l.ends
    /\ steps' = l.steps

\* an await of the running call at which the other call, not yet over, is
\* scheduled
Yield ==
    /\ parked.some
    /\ parked.v.pc # "done"
    /\ Resume(parked.v)
    /\ parked' = Some(Locals)
    /\ running' = 3 - running
    /\ UNCHANGED <<remote_jobs, owner, unit>>

\* the locals of a call that has not started
IdleCall ==
    [pc |-> "idle", request |-> NoRequest,
     env |-> [ORACLE_TEST_MODE |-> None, OPENAI_API_KEY |-> FALSE],
     user_prompt |-> <<>>, max_output_tokens |-> 0, attempts |-> 0,
     response_json |-> NoPayload, response_id |-> 0, delay |-> 0, elapsed |-> 0,
     result |-> NoResult, submissions |-> <<>>, fetches |-> <<>>, waits |-> <<>>,
     observed |-> 0, ends |-> <<>>, steps |-> NoSteps]

\* two calls, neither of which has started
ConcInit ==
    /\ pc = IdleCall.pc
    /\ request = IdleCall.request
    /\ env = IdleCall.env
    /\ user_prompt = IdleCall.user_prompt
    /\ max_output_tokens = IdleCall.max_output_tokens
    /\ attempts = IdleCall.attempts
    /\ response_json = IdleCall.response_json
    /\ response_id = IdleCall.response_id
    /\ delay = IdleCall.delay
    /\ elapsed = IdleCall.elapsed
    /\ result = IdleCall.result
    /\ submissions = IdleCall.submissions
    /\ fetches = IdleCall.fetches
    /\ waits = IdleCall.waits
    /\ observed = IdleCall.observed
    /\ ends = IdleCall.ends
    /\ steps = IdleCall.steps
    /\ remote_jobs = 0
    /\ unit = NoUnit
    /\ running = 1
    /\ parked = Some(IdleCall)
    /\ owner = <<>>

\* the inputs the two calls are run on: the plain request; short payloads
\* that are queued, completed with the text "a", incomplete for
\* max_output_tokens without text, or failed; and a polling loop of more
\* than MaxConcWaits waits in the first attempt of call 1 only, ending
\* otherwise than incomplete
ConcInputs ==
    /\ request \in {NoRequest, Request(<<Run("txt", 1, 7)>>, None, None)}
    /\ env.ORACLE_TEST_MODE \in {None, Some("1")}
    /\ response_json.serialized \in {<<>>, Lit("json", 300)}
    /\ response_json.error_message = Null
    /\ response_json.output = Null
    /\ response_json.content = Null
    /\ \/ response_json.status \in {Word("queued"), Word("failed")}
       \/ response_json = NoPayload
       \/ /\ response_json.status = Word("completed")
          /\ response_json.incomplete_reason = Null
          /\ response_json.output_text = Str(<<"a">>)
       \/ /\ response_json.status = Word("incomplete")
          /\ response_json.incomplete_reason = Word("max_output_tokens")
          /\ response_json.output_text = Null
          /\ Len(waits) <= MaxConcWaits
    /\ Len(waits) > MaxConcWaits => running = 1 /\ attempts = 1
    /\ ByteLen(result.preview.v) <= 300

ConcNext ==
    \/ CallOpenaiTestMode /\ ConcInputs'
    \/ CallOpenaiStart /\ ConcInputs'
    \/ Submit /\ ConcInputs'
    \/ PollReturn
    \/ PollFail
    \/ PollTimeout
    \/ PollSleepFetch /\ ConcInputs'
    \/ Yield

ConcSpec == ConcInit /\ [][ConcNext]_vars

----------------------------------------------------------------------------
(* Properties *)

Budgets == [i \in 1..Len(submissions) |-> submissions[i].max_output_tokens]

Last(seq) == seq[Len(seq)]

\* an attempt that ended incomplete, reason max_output_tokens, no text
RetryEnd(end) ==
    /\ end.status = "incomplete"
    /\ end.reason = Some("max_output_tokens")
    /\ ~end.text.some

\* the warning the answer of an incomplete payload ends with
ExpectedWarning(value) ==
    <<"\n\n[oracle warning] OpenAI stopped early (",
      IF value.incomplete_reason.t = "str" THEN value.incomplete_reason.s
      ELSE "reason unavailable",
      "). The answer may be truncated.">>

\* C1: a call makes at most 3 submissions; after three attempts that each
\* ended incomplete / max_output_tokens / no text the budgets submitted were
\* 2048, 4096, 8192, the call is over and it failed with the
\* incomplete-no-text error.
C1_AtMostThreeThenIncompleteError ==
    /\ Len(submissions) <= 3
    /\ (Len(ends) = 3 /\ \A i \in 1..3 : RetryEnd(ends[i]))
         => /\ pc = "done"
            /\ Budgets = <<2048, 4096, 8192>>
            /\ ~result.ok
            /\ result.kind = "incomplete_no_text"

\* C2: when one or two attempts ended incomplete / max_output_tokens / no
\* text and the next ended completed with text T, the call succeeded with
\* exactly T, no warning appended.
C2_CompletedAfterRetriesNoWarning ==
    (/\ Len(ends) \in {2, 3}
     /\ \A i \in 1..(Len(ends) - 1) : RetryEnd(ends[i])
     /\ Last(ends).status = "completed"
     /\ Last(ends).text.some)
      => /\ pc = "done"
         /\ result.ok
         /\ result.text = Last(ends).text.v
         /\ Len(submissions) = Len(ends)

C2_Witness ==
    /\ pc = "done"
    /\ Len(ends) = 3
    /\ RetryEnd(ends[1]) /\ RetryEnd(ends[2])
    /\ Last(ends).status = "completed"
    /\ result.ok
    /\ result.text = <<"a">>
    /\ response_json.incomplete_reason.t = "str"

\* C3: an attempt whose terminal payload yields text ends the call with
\* success and is never followed by another submission, whatever the
\* incomplete reason; the answer is the text followed by the warning naming
\* the reason (or "reason unavailable") exactly when the status is
\* incomplete, and the text unchanged when it is completed.
C3_TextReturnsAtOnce ==
    \A i \in 1..Len(ends) :
        ends[i].text.some
          => /\ i = Len(ends)
             /\ pc = "done"
             /\ Len(submissions) = i
             /\ result.ok
             /\ ends[i].status = "incomplete"
                  => result.text = ends[i].text.v \o ExpectedWarning(response_json)
             /\ ends[i].status = "completed"
                  => result.text = ends[i].text.v

C3_Witness ==
    /\ pc = "done"
    /\ Len(ends) = 1
    /\ ends[1].status = "incomplete"
    /\ ends[1].reason = Some("max_output_tokens")
    /\ ends[1].text.some
    /\ result.ok
    /\ Len(result.text) = Len(ends[1].text.v) + 3

\* the first attempt ended completed with a non-blank top-level text field
FirstEndCompletedTopLevel ==
    /\ Len(ends) >= 1
    /\ ends[1].status = "completed"
    /\ response_json.output_text.t = "str"
    /\ \E i \in 1..Len(response_json.output_text.x) :
           response_json.output_text.x[i] \notin Whitespace

\* C4 as claimed: non-terminal statuses followed by a completed payload whose
\* top-level text field is T (non-blank): one submission, one wait and one
\* fetch per non-terminal status, and the answer is exactly T.
C4_ReturnsExactlyT ==
    FirstEndCompletedTopLevel
      => /\ pc = "done"
         /\ Len(submissions) = 1
         /\ Len(waits) = observed
         /\ Len(fetches) = observed
         /\ result.ok
         /\ result.text = response_json.output_text.x

\* C4 as amended: the same, and the answer is T with its leading and trailing
\* whitespace removed.
C4_ReturnsTrimmedT ==
    FirstEndCompletedTopLevel
      => /\ pc = "done"
         /\ Len(submissions) = 1
         /\ Len(waits) = observed
         /\ Len(fetches) = observed
         /\ \A i \in 1..Len(fetches) : fetches[i] = response_id
         /\ result.ok
         /\ result.text = trim(response_json.output_text.x)

C4_Witness ==
    /\ FirstEndCompletedTopLevel
    /\ pc = "done"
    /\ observed = 3
    /\ response_json.output_text.x = <<" ", "a">>
    /\ result.text = <<"a">>

\* C5: when the status inspected is failed, the call fails at once, with no
\* further fetch and no resubmission, and its message starts with the remote
\* error message when the payload has one and with the generic failure
\* message otherwise.
C5_FailedFailsWithMessage ==
    [][(pc = "poll" /\ response_json.status = Word("failed"))
         => /\ pc' = "done"
            /\ fetches' = fetches
            /\ submissions' = submissions
            /\ ~result'.ok
            /\ result'.kind = "failed"
            /\ result'.text[1] = IF response_json.error_message.t = "str"
                                 THEN response_json.error_message.s
                                 ELSE "OpenAI response marked as failed"]_vars

\* C1 and C5 but for the panic of summarize_json: the two hold in every case
\* in which the preview of the payload can be cut.
C1_ExceptPreviewPanic ==
    /\ Len(submissions) <= 3
    /\ (Len(ends) = 3 /\ \A i \in 1..3 : RetryEnd(ends[i]))
         => /\ pc = "done"
            /\ Budgets = <<2048, 4096, 8192>>
            /\ ~result.ok
            /\ result.kind \in {"incomplete_no_text", "panic"}
            /\ result.kind = "panic" => summarize_json(response_json).panic

C5_ExceptPreviewPanic ==
    [][(pc = "poll" /\ response_json.status = Word("failed"))
         => /\ pc' = "done"
            /\ fetches' = fetches
            /\ submissions' = submissions
            /\ ~result'.ok
            /\ \/ summarize_json(response_json).panic /\ result'.kind = "panic"
               \/ /\ result'.kind = "failed"
                  /\ result'.text[1] = IF response_json.error_message.t = "str"
                                       THEN response_json.error_message.s
                                       ELSE "OpenAI response marked as failed"]_vars

RECURSIVE CharLen(_)
\* the number of characters of a local text (at most its ByteLen)
CharLen(s) == IF s = <<>> THEN 0 ELSE Head(s).k + CharLen(Tail(s))

\* C6: the prompt build_prompt returns is never longer than MAX_PROMPT_CHARS,
\* whatever the problem, the extra context and the files.  The length is
\* counted in characters, the smaller of the two measures: a prompt too
\* long in characters is too long in bytes as well.
C6_PromptWithinMax ==
    (unit.fn = "build_prompt" /\ ~unit.out.panic)
      => CharLen(unit.out.v) <= MAX_PROMPT_CHARS

RECURSIVE SumSeq(_)
SumSeq(seq) == IF seq = <<>> THEN 0 ELSE Head(seq) + SumSeq(Tail(seq))

\* C7 as claimed: the cumulative waited time never exceeds the polling
\* deadline, up to and including the state in which the timeout is raised.
C7_ElapsedWithinDeadline ==
    /\ elapsed = SumSeq(waits)
    /\ elapsed <= OPENAI_POLL_TIMEOUT_SECS * 1000

\* C7 as amended: a wait begins only while the cumulative waited time is
\* below the deadline, so the cumulative waited time stays below the deadline
\* plus the longest delay; the timeout is raised only once the deadline is
\* reached, and no wait follows it.
C7_ElapsedOvershootsByLessThanOneDelay ==
    /\ elapsed = SumSeq(waits)
    /\ waits # <<>> => elapsed - Last(waits) < OPENAI_POLL_TIMEOUT_SECS * 1000
    /\ elapsed < OPENAI_POLL_TIMEOUT_SECS * 1000 + OPENAI_POLL_MAX_DELAY_MS
    /\ result.kind = "poll_timeout"
         => /\ elapsed >= OPENAI_POLL_TIMEOUT_SECS * 1000
            /\ Len(waits) = observed - 1

C7_Witness ==
    /\ pc = "done"
    /\ result.kind = "poll_timeout"
    /\ elapsed = 120387
    /\ attempts = 2

\* C8: in every polling loop, also that of a resubmitted attempt, the waits
\* start at 500 ms with nothing elapsed and go 500, 750, 1125, 1687, ...,
\* each the smaller of 1.5 times the one before (in whole milliseconds) and
\* 5000; the delay never decreases and stays within 500..5000; and
\* next_poll_delay of 0 is 500.
C8_BackoffSequence ==
    /\ (pc = "poll" /\ waits = <<>>) => (delay = 500 /\ elapsed = 0)
    /\ pc = "poll" => (delay >= 500 /\ delay <= 5000)
    /\ \A i \in 1..Len(waits) :
          /\ waits[i] >= 500 /\ waits[i] <= 5000
          /\ i = 1 => waits[i] = 500
          /\ i > 1 => /\ waits[i] = Min((3 * waits[i - 1]) \div 2, 5000)
                      /\ waits[i] >= waits[i - 1]
    /\ (pc = "poll" /\ waits # <<>>)
         => /\ delay = Min((3 * Last(waits)) \div 2, 5000)
            /\ delay >= Last(waits)
    /\ Len(waits) >= 4 => SubSeq(waits, 1, 4) = <<500, 750, 1125, 1687>>
    /\ unit.fn = "next_poll_delay"
         => /\ unit.in = 0 => unit.out = 500
            /\ unit.in > 0 => unit.out = Min((3 * unit.in) \div 2, 5000)

C8_Witness ==
    /\ pc = "poll"
    /\ attempts = 3
    /\ Len(waits) = 8
    /\ waits[8] = 5000
    /\ delay = 5000

NonBlank(x) == \E i \in 1..Len(x) : x[i] \notin Whitespace

HasTopLevelText(p) == p.output_text.t = "str" /\ NonBlank(p.output_text.x)

HasFragmentText(p) ==
    /\ p.output_text.t = "arr"
    /\ \E i \in 1..Len(p.output_text.a) :
          p.output_text.a[i].t = "str" /\ NonBlank(p.output_text.a[i].x)

RECURSIVE AnyText(_)
\* some entry of the list, at any depth, has a non-blank text field
AnyText(contents) ==
    \E i \in 1..Len(contents) :
        \/ contents[i].text.t = "str" /\ NonBlank(contents[i].text.x)
        \/ contents[i].content.t = "arr" /\ AnyText(contents[i].content.a)

HasItemText(p) ==
    /\ p.output.t = "arr"
    /\ \E i \in 1..Len(p.output.a) :
          p.output.a[i].content.t = "arr" /\ AnyText(p.output.a[i].content.a)

HasContentText(p) == p.content.t = "arr" /\ AnyText(p.content.a)

\* C9: extract_output_text takes the first of its four strategies, in the
\* order top-level text, top-level fragments, output items, content list,
\* that has non-blank text to give: a non-blank top-level text field wins
\* over whatever the output items and the content list hold, a blank or
\* absent one falls through, and the result is absent exactly when no
\* strategy has text.
C9_FirstStrategyWithTextWins ==
    unit.fn = "extract_output_text"
      => /\ HasTopLevelText(unit.in)
              => unit.out = Some(trim(unit.in.output_text.x))
         /\ (~HasTopLevelText(unit.in) /\ HasFragmentText(unit.in))
              => unit.out = extract_text_fragments(unit.in)
         /\ (~HasTopLevelText(unit.in) /\ ~HasFragmentText(unit.in) /\ HasItemText(unit.in))
              => unit.out = extract_output_items(unit.in)
         /\ (/\ ~HasTopLevelText(unit.in) /\ ~HasFragmentText(unit.in)
             /\ ~HasItemText(unit.in) /\ HasContentText(unit.in))
              => unit.out = extract_content_list(unit.in)
         /\ unit.out.some
              <=> \/ HasTopLevelText(unit.in) \/ HasFragmentText(unit.in)
                  \/ HasItemText(unit.in) \/ HasContentText(unit.in)
         /\ unit.out.some => NonBlank(unit.out.v)

C9_Witness ==
    /\ unit.fn = "extract_output_text"
    /\ unit.in.output_text = Str(<<" ", "a">>)
    /\ HasItemText(unit.in)
    /\ HasContentText(unit.in)
    /\ unit.out = Some(<<"a">>)
    /\ extract_content_list(unit.in) = Some(<<"a", "\n", "\n", "b">>)

RECURSIVE ContainsRuns(_, _)
\* the local text s holds the runs of part, in a row
ContainsRuns(s, part) ==
    /\ Len(s) >= Len(part)
    /\ \/ SubSeq(s, 1, Len(part)) = part
       \/ ContainsRuns(Tail(s), part)

\* C10: with the test-mode flag enabled call_openai returns the canned
\* success response, which holds the test-mode marker and the problem text,
\* and has done nothing else: no file read, no prompt built, no credential
\* read, no submission, no wait, no fetch, no attempt counted.
C10_TestModeReturnsFirst ==
    (env.ORACLE_TEST_MODE.some /\ env.ORACLE_TEST_MODE.v \in {"1", "true", "yes", "on"})
      => /\ pc = "done"
         /\ result.ok
         /\ result.text[1].c = "[oracle test mode] No call was made to OpenAI ...\n\n"
         /\ ContainsRuns(result.text, request.problem)
         /\ steps.files_read = 0
         /\ steps.prompts_built = 0
         /\ ~steps.api_key_read
         /\ user_prompt = <<>>
         /\ attempts = 0
         /\ submissions = <<>>
         /\ remote_jobs = 0
         /\ waits = <<>>
         /\ fetches = <<>>

C10_Witness ==
    /\ pc = "done"
    /\ env.ORACLE_TEST_MODE = Some("on")
    /\ ~env.OPENAI_API_KEY
    /\ request.files = Some(<<"utf8.md">>)
    /\ build_prompt(request).panic
    /\ result.ok
    /\ ContainsRuns(result.text, <<Run("txt", 1, 7)>>)

----------------------------------------------------------------------------

ErrorKinds ==
    {"configuration", "transport", "http_status", "parse", "missing_id",
     "poll_timeout", "failed", "requires_action", "cancelled",
     "unexpected_status", "incomplete_no_text", "no_text_extracted"}

\* C11: every call that is over ended in a success result carrying the text
\* or in an error result of one of the failure kinds, and the tool operation
\* solve_coding_problem raised no fault to its host.
C11_EndsInSuccessOrErrorResult ==
    pc = "done"
      => /\ ~oracle(result).fault
         /\ \/ result.ok /\ ~oracle(result).is_error
            \/ ~result.ok /\ result.kind \in ErrorKinds /\ oracle(result).is_error

\* C11 but for the two panics: a call that is over without a result panicked
\* in the truncate of build_prompt or in the slice of summarize_json.
C11_FaultOnlyByPanic ==
    pc = "done"
      => \/ result.ok /\ ~oracle(result).is_error
         \/ ~result.ok /\ result.kind \in ErrorKinds /\ oracle(result).is_error
         \/ /\ oracle(result).fault
            /\ \/ build_prompt(request).panic /\ submissions = <<>>
               \/ submissions # <<>> /\ summarize_json(response_json).panic

PayloadErrorKinds ==
    {"missing_id", "poll_timeout", "failed", "requires_action", "cancelled",
     "unexpected_status", "incomplete_no_text", "no_text_extracted"}

\* C12: the error message of a call that failed holds at most the first 2000
\* characters of the remote payload or response body, and when the payload
\* is longer than 2000 characters the number in the 'truncated N chars'
\* suffix is the number of characters left out.
C12_RemoteContentOnlyAsBoundedPreview ==
    (pc = "done" /\ ~result.ok)
      => /\ CharLen(result.preview.v) <= OPENAI_JSON_PREVIEW_CHARS
         /\ (result.kind \in PayloadErrorKinds
               /\ CharLen(response_json.serialized) > OPENAI_JSON_PREVIEW_CHARS)
              => /\ CharLen(result.preview.v) = OPENAI_JSON_PREVIEW_CHARS
                 /\ result.preview.omitted
                      = CharLen(response_json.serialized) - OPENAI_JSON_PREVIEW_CHARS

\* What summarize_json does bound: a payload error that did not panic holds
\* the first 2000 bytes of the payload and N is the number of bytes left out.
C12_PayloadPreviewCutAtByte2000 ==
    (pc = "done" /\ result.kind \in PayloadErrorKinds)
      => /\ ByteLen(result.preview.v) <= OPENAI_JSON_PREVIEW_CHARS
         /\ ByteLen(response_json.serialized) > OPENAI_JSON_PREVIEW_CHARS
              => /\ ByteLen(result.preview.v) = OPENAI_JSON_PREVIEW_CHARS
                 /\ result.preview.omitted
                      = ByteLen(response_json.serialized) - OPENAI_JSON_PREVIEW_CHARS

NonTerminal(value) ==
    value.status \in {Word("queued"), Word("in_progress"), Word("cancelling")}

\* C13: a call makes at most 3 submissions, hence at most 3 polling loops;
\* a step is always possible while it is submitting or polling; and while
\* the status observed is non-terminal each pass of the polling loop either
\* waits and fetches once more, at most 28 times in all, or, the deadline
\* reached, ends the call with the poll-timeout error.
C13_PollTimeoutAfterBoundedWaits ==
    /\ [](Len(submissions) <= MAX_ATTEMPTS)
    /\ [](pc \in {"submit", "poll"} => ENABLED Next)
    /\ [][(pc = "poll" /\ NonTerminal(response_json))
           => \/ /\ elapsed < 120000
                 /\ Len(waits') = Len(waits) + 1
                 /\ Len(fetches') = Len(fetches) + 1
                 /\ Len(waits') <= 28
              \/ /\ elapsed >= 120000
                 /\ pc' = "done"
                 /\ ~result'.ok
                 /\ result'.kind = "poll_timeout"]_vars

\* C13 but for the panic of summarize_json: every step of a call that is
\* submitting or polling ends the call, counts one more attempt (of at most
\* 3) or makes one more wait (of at most 28 per polling loop); so every call
\* whose submissions and fetches return is over after finitely many steps.
C13_TerminatesWithinBounds ==
    /\ [](Len(submissions) <= MAX_ATTEMPTS /\ attempts <= MAX_ATTEMPTS /\ Len(waits) <= 28)
    /\ [](pc \in {"submit", "poll"} => ENABLED Next)
    /\ [][(pc = "submit" \/ pc = "poll")
           => \/ pc' = "done"
              \/ pc' = "poll" /\ attempts' = attempts + 1
              \/ pc' = "poll" /\ attempts' = attempts /\ Len(waits') = Len(waits) + 1
              \/ /\ pc' = "submit" /\ pc = "poll"
                 /\ attempts' = attempts /\ attempts < MAX_ATTEMPTS]_vars
    /\ [][(pc = "poll" /\ NonTerminal(response_json) /\ elapsed >= 120000)
           => /\ pc' = "done"
              /\ \/ result'.kind = "poll_timeout"
                 \/ result'.kind = "panic" /\ summarize_json(response_json).panic]_vars

\* the locals of call c, running or suspended
LocalsOf(c) == IF running = c THEN Locals ELSE parked.v

\* the remote jobs that the submissions of call c created
JobsOf(c) == {i \in 1..Len(owner) : owner[i] = c}

\* C14: under every interleaving of two calls, each remote job was created
\* by one submission of one call; every fetch of a call, and the payload the
\* call acts on, is of the job its own latest submission created; its
\* attempts and budget follow from the ends of its own jobs; and a step
\* changes the locals of the running call alone.
C14_CallsShareNoJobState ==
    /\ [](\A c \in Calls :
            LET l == LocalsOf(c)
            IN /\ l.attempts = Len(l.submissions)
               /\ Cardinality(JobsOf(c)) <= l.attempts
               /\ \A i \in 1..Len(l.fetches) :
                     l.fetches[i] \in JobsOf(c) /\ l.fetches[i] = l.response_id
               /\ l.response_json.id \in {Null} \cup {JobId(j) : j \in JobsOf(c)}
               /\ l.pc = "poll"
                    => /\ l.response_id \in JobsOf(c)
                       /\ \A j \in JobsOf(c) : j <= l.response_id
                       /\ l.response_json.id = JobId(l.response_id)
                       /\ l.attempts = Len(l.ends) + 1
                       /\ l.max_output_tokens = INITIAL_MAX_OUTPUT_TOKENS * 2^Len(l.ends)
                       /\ \A i \in 1..Len(l.ends) : RetryEnd(l.ends[i]))
    /\ [][\A c \in Calls :
            (c # running \/ running' # running) => LocalsOf(c)' = LocalsOf(c)]_vars

\* two calls on the same request, each polling the second job it created,
\* the four jobs created in turn
C14_Witness ==
    /\ parked.some
    /\ owner = <<1, 2, 1, 2>>
    /\ LocalsOf(1).request = Request(<<Run("txt", 1, 7)>>, None, None)
    /\ LocalsOf(2).request = LocalsOf(1).request
    /\ LocalsOf(1).pc = "poll" /\ LocalsOf(1).fetches = <<3>>
    /\ LocalsOf(2).pc = "poll" /\ LocalsOf(2).fetches = <<4>>

\* the step ends the call with the error kind, without a wait or a fetch; with
\* allow_panic, or in the panic of summarize_json on the payload
FailsAs(kind, allow_panic) ==
    /\ pc' = "done"
    /\ ~result'.ok
    /\ fetches' = fetches
    /\ waits' = waits
    /\ submissions' = submissions
    /\ \/ result'.kind = kind
       \/ allow_panic /\ result'.kind = "panic" /\ summarize_json(response_json).panic

\* what a pass of the polling loop does with the status it observes
Classification(allow_panic) ==
    /\ (pc = "poll" /\ NonTerminal(response_json))
         => \/ /\ elapsed < 120000
               /\ waits' = Append(waits, delay)
               /\ fetches' = Append(fetches, response_id)
            \/ elapsed >= 120000 /\ FailsAs("poll_timeout", allow_panic)
    /\ (pc = "poll" /\ response_json.status \in {Word("completed"), Word("incomplete")})
         => /\ ends' = Append(ends, [status |-> response_json.status.s,
                                     reason |-> incomplete_reason(response_json),
                                     text |-> extract_output_text(response_json)])
            /\ fetches' = fetches
            /\ waits' = waits
            /\ pc' \in {"done", "submit"}
    /\ (pc = "poll" /\ response_json.status = Word("failed"))
         => FailsAs("failed", allow_panic)
    /\ (pc = "poll" /\ response_json.status = Word("requires_action"))
         => FailsAs("requires_action", allow_panic)
    /\ (pc = "poll" /\ response_json.status = Word("cancelled"))
         => FailsAs("cancelled", allow_panic)
    /\ (pc = "poll" /\ response_json.status \in {Word("expired"), Null})
         => FailsAs("unexpected_status", allow_panic)
    /\ (pc = "submit" /\ pc' = "poll")
         => /\ waits' = <<>>
            /\ fetches' = <<>>
            /\ response_id' > response_id

\* C15: queued, in_progress and cancelling cause a wait and a fetch of the
\* job (the poll timeout once the deadline is reached); completed and
\* incomplete hand the payload to extraction; failed, requires_action and
\* cancelled fail the call with their error; any other status, or none,
\* fails it as an unexpected status.  None of the last three fetches again,
\* the next polling loop is on a new job, and a polling loop starts with no
\* wait and no fetch made.
C15_StatusClassification == [][Classification(FALSE)]_vars

\* C15 but for the panic of summarize_json
C15_ExceptPreviewPanic == [][Classification(TRUE)]_vars

\* a completed or incomplete payload without text, observed when the
\* conditions of the retry do not all hold
NoTextNoRetry ==
    /\ pc = "poll"
    /\ response_json.status \in {Word("completed"), Word("incomplete")}
    /\ ~extract_output_text(response_json).some
    /\ ~ /\ response_json.status = Word("incomplete")
         /\ response_json.incomplete_reason = Word("max_output_tokens")
         /\ max_output_tokens < 8192
         /\ attempts < 3

NoTextKind == IF response_json.status = Word("incomplete")
              THEN "incomplete_no_text" ELSE "no_text_extracted"

\* C16: a terminal payload without text, the retry conditions not all
\* holding, ends the call without another submission: with the
\* incomplete-no-text error when the status is incomplete, with the
\* no-text-extracted error when it is completed, the message carrying the
\* first 2000 characters at most of the payload.
C16_NoTextFailsWithoutResubmitting ==
    [][NoTextNoRetry
         => /\ pc' = "done"
            /\ submissions' = submissions
            /\ attempts' = attempts
            /\ ~result'.ok
            /\ result'.kind = NoTextKind
            /\ CharLen(result'.preview.v)
                 = Min(CharLen(response_json.serialized), OPENAI_JSON_PREVIEW_CHARS)]_vars

\* C16 but for the panic of summarize_json
C16_ExceptPreviewPanic ==
    [][NoTextNoRetry
         => /\ pc' = "done"
            /\ submissions' = submissions
            /\ attempts' = attempts
            /\ ~result'.ok
            /\ \/ result'.kind = "panic" /\ summarize_json(response_json).panic
               \/ /\ result'.kind = NoTextKind
                  /\ CharLen(result'.preview.v)
                       = Min(CharLen(response_json.serialized), OPENAI_JSON_PREVIEW_CHARS)]_vars

\* the last n runs of the local text s
LastRuns(s, n) == SubSeq(s, Len(s) - n + 1, Len(s))

\* What the truncation rule asks of build_prompt(req) = out, for blocks the
\* context-blocks buffer of req and base the prompt before the files; with
\* allow_panic, or the panic of truncate() when the cut is inside a character
TruncationRule(req, out, allow_panic) ==
    LET blocks == IF req.files.some THEN read_files(req.files.v, <<>>) ELSE <<>>
        base == PromptBase(req)
        base_len == ByteLen(base) + ByteLen(header) + ByteLen(trunc_notice)
        available == IF MAX_PROMPT_CHARS - base_len > 0
                     THEN MAX_PROMPT_CHARS - base_len ELSE 0
    IN CASE blocks = <<>> ->
              /\ ~out.panic
              /\ ~ContainsRuns(out.v, header)
              /\ ~ContainsRuns(out.v, trunc_notice)
         [] blocks # <<>> /\ available = 0 ->
              /\ ~out.panic
              /\ out.v = base \o header \o trunc_notice
         [] blocks # <<>> /\ available > 0 /\ ByteLen(blocks) > available ->
              \/ /\ ~out.panic
                 /\ SubSeq(out.v, 1, Len(base) + 1) = base \o header
                 /\ LastRuns(out.v, 1) = trunc_notice
                 /\ ByteLen(out.v) = base_len + available
                 /\ SubSeq(out.v, Len(base) + 2, Len(out.v) - 1)
                      = CutAt(blocks, available).v
              \/ allow_panic /\ out.panic /\ CutAt(blocks, available).panic
         [] OTHER ->
              /\ ~out.panic
              /\ out.v = base \o header \o blocks

\* C17: with file contexts, no room left gives the header and the notice
\* and no file content; a buffer longer than the room left gives exactly its
\* first available_for_files bytes, then the notice; otherwise the buffer
\* is appended whole, in the order of the request, without the notice.
\* Without file contexts the prompt has neither the header nor the notice.
C17_TruncationRule ==
    unit.fn = "build_prompt" => TruncationRule(unit.in, unit.out, FALSE)

\* C17 but for the panic of truncate()
C17_ExceptTruncatePanic ==
    unit.fn = "build_prompt" => TruncationRule(unit.in, unit.out, TRUE)

\* the three cases with file contexts, none of which panics
C17_NoRoom ==
    /\ unit.fn = "build_prompt"
    /\ unit.in.problem = <<Run("txt", 1, 1000000)>>
    /\ unit.in.files = Some(<<"small.rs">>)
    /\ LastRuns(unit.out.v, 2) = header \o trunc_notice

C17_Truncated ==
    /\ unit.fn = "build_prompt"
    /\ unit.in.files = Some(<<"small.rs", "big.rs">>)
    /\ unit.in.problem = <<Run("txt", 1, 9)>>
    /\ unit.in.extra_context = None
    /\ ~unit.out.panic
    /\ LastRuns(unit.out.v, 2) = <<Run("big", 1, 999416)>> \o trunc_notice

C17_InFull ==
    /\ unit.fn = "build_prompt"
    /\ unit.in.files = Some(<<"small.rs", "missing.rs">>)
    /\ LastRuns(unit.out.v, 4) = PathText("missing.rs")
          \o Lit(" (error reading) =====\n", 23) \o <<Run("io error", 1, 25)>> \o Lit("\n", 1)

\* C18: build_prompt returns a prompt for every request, also when the
\* file-context buffer holds multi-byte characters across the cut point,
\* its file content cut at a character boundary.
C18_TruncationKeepsCharacters ==
    unit.fn = "build_prompt" => ~unit.out.panic

\* a buffer of multi-byte characters that is cut on a character boundary
C18_CutOnBoundary ==
    /\ unit.fn = "build_prompt"
    /\ unit.in.files = Some(<<"utf8.md">>)
    /\ ~unit.out.panic
    /\ LastRuns(unit.out.v, 1) = trunc_notice
    /\ LastRuns(unit.out.v, 2)[1].w = 3

\* C19: the prompt build_prompt returns holds the 'Extra context' section
\* exactly when extra_context is present and not blank.
C19_ExtraContextIffNonBlank ==
    (unit.fn = "build_prompt" /\ ~unit.out.panic)
      => (ContainsRuns(unit.out.v, Lit("### Extra context\n", 18))
            <=> /\ unit.in.extra_context.some
                /\ \E i \in 1..Len(unit.in.extra_context.v) :
                      /\ unit.in.extra_context.v[i].c # "ws"
                      /\ unit.in.extra_context.v[i].k > 0)

\* What build_prompt does: the section is there exactly when extra_context
\* is present, blank or not, and holds extra_context as it is.
C19_ExtraContextIffPresent ==
    (unit.fn = "build_prompt" /\ ~unit.out.panic)
      => IF unit.in.extra_context.some
         THEN ContainsRuns(unit.out.v,
                  Lit("### Extra context\n", 18) \o unit.in.extra_context.v \o Lit("\n\n", 2))
         ELSE ~ContainsRuns(unit.out.v, Lit("### Extra context\n", 18))

\* C20: the prompt of a call is built once, before the first submission;
\* all submissions of the call carry that prompt and the same model,
\* instructions and reasoning effort; two consecutive submissions differ in
\* max_output_tokens and in nothing else.
C20_SubmissionsDifferInBudgetOnly ==
    /\ steps.prompts_built <= 1
    /\ submissions # <<>> => steps.prompts_built = 1
    /\ \A i \in 1..Len(submissions) :
          /\ submissions[i].input = user_prompt
          /\ submissions[i].model = submissions[1].model
          /\ submissions[i].instructions = submissions[1].instructions
          /\ submissions[i].reasoning = submissions[1].reasoning
    /\ \A i \in 1..(Len(submissions) - 1) :
          /\ submissions[i + 1].max_output_tokens # submissions[i].max_output_tokens
          /\ [submissions[i + 1] EXCEPT !.max_output_tokens = 0]
               = [submissions[i] EXCEPT !.max_output_tokens = 0]

\* three submissions of the request with files, the prompt truncated
C20_Witness ==
    /\ Len(submissions) = 3
    /\ request.files = Some(<<"small.rs", "big.rs">>)
    /\ LastRuns(submissions[3].input, 1) = trunc_notice
    /\ submissions[1].max_output_tokens = 2048
    /\ submissions[3].max_output_tokens = 8192

\* a submission answered with a success response that has no id
MissingIdStep ==
    /\ pc = "submit"
    /\ remote_jobs' = remote_jobs + 1
    /\ response_json'.id = Null

\* C21: a success response to the submission that has no id ends the call
\* with the missing-id error, no status having been inspected and no wait
\* or fetch made, whatever its status and its text.
C21_MissingIdFailsFirst ==
    [][MissingIdStep
         => /\ pc' = "done"
            /\ ~result'.ok
            /\ result'.kind = "missing_id"
            /\ observed' = observed /\ ends' = ends
            /\ waits' = waits /\ fetches' = fetches]_vars

\* C21 but for the panic of summarize_json
C21_ExceptPreviewPanic ==
    [][MissingIdStep
         => /\ pc' = "done"
            /\ ~result'.ok
            /\ \/ result'.kind = "missing_id"
               \/ result'.kind = "panic" /\ summarize_json(response_json').panic
            /\ observed' = observed /\ ends' = ends
            /\ waits' = waits /\ fetches' = fetches]_vars

\* the missing-id error for a response that is completed and has text
C21_CompletedWithText ==
    /\ pc = "done"
    /\ result.kind = "missing_id"
    /\ response_json.status = Word("completed")
    /\ extract_output_text(response_json) = Some(<<"a">>)
    /\ ends = <<>> /\ fetches = <<>> /\ waits = <<>>

RECURSIVE EntryTexts(_)
\* the text fields of the entries of a content list, at every depth, in
\* document order: the text of an entry, then those of its nested list
EntryTexts(contents) ==
    IF contents = <<>> THEN <<>>
    ELSE (IF Head(contents).text.t = "str" THEN <<Head(contents).text.x>> ELSE <<>>)
         \o (IF Head(contents).content.t = "arr"
             THEN EntryTexts(Head(contents).content.a) ELSE <<>>)
         \o EntryTexts(Tail(contents))

RECURSIVE ItemTexts(_)
\* the text fields of the entries of the content lists of the output items
ItemTexts(items) ==
    IF items = <<>> THEN <<>>
    ELSE (IF Head(items).content.t = "arr" THEN EntryTexts(Head(items).content.a) ELSE <<>>)
         \o ItemTexts(Tail(items))

RECURSIVE JoinBlankLine(_)
\* the pieces with a blank line between two of them
JoinBlankLine(pieces) ==
    IF pieces = <<>> THEN <<>>
    ELSE IF Len(pieces) = 1 THEN pieces[1]
    ELSE pieces[1] \o <<"\n", "\n">> \o JoinBlankLine(Tail(pieces))

\* what a strategy yields for the text fields it meets
JoinedNonBlank(pieces) ==
    IF SelectSeq(pieces, NonBlank) = <<>> THEN None
    ELSE Some(JoinBlankLine(SelectSeq(pieces, NonBlank)))

\* C22: the output-items strategy and the content-list strategy yield the
\* non-blank text fields of all entries, at every depth and in document
\* order, an entry's text before those of its nested list, with a blank
\* line between two pieces and none before the first or after the last;
\* they yield nothing exactly when no text field is non-blank.
C22_RecursiveCollectionInOrder ==
    unit.fn = "extract_output_text"
      => /\ extract_output_items(unit.in)
              = IF unit.in.output.t = "arr"
                THEN JoinedNonBlank(ItemTexts(unit.in.output.a)) ELSE None
         /\ extract_content_list(unit.in)
              = IF unit.in.content.t = "arr"
                THEN JoinedNonBlank(EntryTexts(unit.in.content.a)) ELSE None

\* a content list three deep with a blank text, and two output items of
\* which the first has an entry with a nested entry
C22_Witness ==
    /\ unit.fn = "extract_output_text"
    /\ EntryTexts(unit.in.content.a) = << <<" ">>, <<"b">>, <<"a">> >>
    /\ extract_content_list(unit.in) = Some(<<"b", "\n", "\n", "a">>)
    /\ ItemTexts(unit.in.output.a) = << <<"a">>, <<"b">>, <<"b">> >>
    /\ extract_output_items(unit.in) = Some(<<"a", "\n", "\n", "b", "\n", "\n", "b">>)

====
